---------------------------- MODULE Spec2Model ----------------------------
(***************************************************************************)
(* A model of dashboard.py, the Streamlit investment dashboard: the        *)
(* password gate, the CSV read loop, the column mapping, the normalisation *)
(* of the uploaded table into `work`, and the top-N aggregation of the     *)
(* dashboard.  A Streamlit script is re-run from its first line after      *)
(* every user interaction; st.session_state and the widget values are what *)
(* survives from one run to the next.                                      *)
(*                                                                         *)
(* Texts are sequences of one-character strings, so that replace, strip,   *)
(* lower and float() are computed character by character.  Numbers are     *)
(* exact decimals m * 10^-e.                                               *)
(***************************************************************************)
EXTENDS Integers, Sequences, FiniteSets, TLC

VARIABLES
    pc,                     \* the statement the current script run is at
    secret,                 \* st.secrets.get("APP_PASSWORD")
    auth_ok,                \* st.session_state["auth_ok"]
    pwd,                    \* the text in the "Senha" box
    clicked,                \* the button whose click started this run
    uploaded,               \* the file_uploader's value
    df,                     \* the DataFrame read from the upload
    mapping,                \* data_col, valor_col, banco_col, classe_col, caract_col
    widget_cols,            \* the options the five selectboxes were last drawn with
    remapped,               \* how often the user changed a selectbox
    stale,                  \* the selectboxes held a column the new table lacks
    fallback,               \* the month-first fallback of line 133 ran
    work,                   \* the table being normalised
    shown,                  \* what this run has put on the page
    top_n_caracteristicas,  \* the slider of line 71
    total_patrimonio,       \* line 151
    dist_char_total,        \* line 196
    dist_char               \* lines 197-202

vars == <<pc, secret, auth_ok, pwd, clicked, uploaded, df, mapping, widget_cols,
          remapped, stale, fallback, work, shown, top_n_caracteristicas,
          total_patrimonio, dist_char_total, dist_char>>

---------------------------------------------------------------------------
(* Bounds of the model.                                                    *)

MaxLen == 4         \* longest amount text drawn exhaustively
MaxRows == 2        \* most data rows of an uploaded table
MaxCols == 3        \* most columns of a header drawn for the default guesses
MaxRemaps == 1      \* most selectbox changes in a session
MaxGroups == 8      \* most distinct characteristics aggregated
MaxTopN == 7        \* largest slider value drawn

(* Program constants.                                                      *)

SliderMin == 6      \* st.sidebar.slider(..., 6, 20, 12, 1)
SliderDefault == 12

---------------------------------------------------------------------------
(* Texts.                                                                  *)

Digits == <<"0", "1", "2", "3", "4", "5", "6", "7", "8", "9">>

IsDigit(c) == \E i \in 1..10 : Digits[i] = c

DigitVal(c) == (CHOOSE i \in 1..10 : Digits[i] = c) - 1

IsSpace(c) == c \in {" ", "\t"}

Upper == <<"A", "B", "C", "D", "E", "I", "L", "N", "O", "P", "R", "T", "V">>

LowerOf == <<"a", "b", "c", "d", "e", "i", "l", "n", "o", "p", "r", "t", "v">>

\* str.lower(), on the letters the model's column names use
LowerChar(c) ==
    IF \E i \in 1..Len(Upper) : Upper[i] = c
    THEN LowerOf[CHOOSE i \in 1..Len(Upper) : Upper[i] = c]
    ELSE c

Lower(s) == [i \in 1..Len(s) |-> LowerChar(s[i])]

StartsWithAt(s, p, i) ==
    /\ i + Len(p) - 1 <= Len(s)
    /\ \A j \in 1..Len(p) : s[i + j - 1] = p[j]

\* `p in s` of Python, for a non-empty p
Contains(s, p) == \E i \in 1..Len(s) : StartsWithAt(s, p, i)

RECURSIVE ReplaceFrom(_, _, _, _)
ReplaceFrom(s, p, r, i) ==
    IF i > Len(s) THEN <<>>
    ELSE IF StartsWithAt(s, p, i) THEN r \o ReplaceFrom(s, p, r, i + Len(p))
    ELSE <<s[i]>> \o ReplaceFrom(s, p, r, i + 1)

\* str.replace(p, r): every non-overlapping occurrence, left to right
Replace(s, p, r) == ReplaceFrom(s, p, r, 1)

RECURSIVE LStrip(_)
LStrip(s) == IF s # <<>> /\ IsSpace(Head(s)) THEN LStrip(Tail(s)) ELSE s

RECURSIVE RStrip(_)
RStrip(s) ==
    IF s # <<>> /\ IsSpace(s[Len(s)]) THEN RStrip(SubSeq(s, 1, Len(s) - 1)) ELSE s

\* str.strip()
Strip(s) == RStrip(LStrip(s))

---------------------------------------------------------------------------
(* Cell values.  A cell of an object column is a text or missing (NaN);    *)
(* a converted amount is a number or NaN; a converted date is a date or    *)
(* NaT.                                                                    *)

NaN == [k |-> "nan"]

Str(t) == [k |-> "str", txt |-> t]

Num(m, e) == [k |-> "num", m |-> m, e |-> e]

NaT == [k |-> "nat"]

Date(y, m, d) == [k |-> "date", y |-> y, m |-> m, d |-> d]

RECURSIVE Pow10(_)
Pow10(n) == IF n = 0 THEN 1 ELSE 10 * Pow10(n - 1)

RECURSIVE Normal(_, _)
\* the decimal m * 10^-e without trailing zeros of the fraction
Normal(m, e) == IF e > 0 /\ m % 10 = 0 THEN Normal(m \div 10, e - 1) ELSE Num(m, e)

Max(a, b) == IF a >= b THEN a ELSE b

\* the mantissa of the number a at the scale 10^-e
Scaled(a, e) == a.m * Pow10(e - a.e)

Add(a, b) == Normal(Scaled(a, Max(a.e, b.e)) + Scaled(b, Max(a.e, b.e)), Max(a.e, b.e))

Greater(a, b) == Scaled(a, Max(a.e, b.e)) > Scaled(b, Max(a.e, b.e))

Zero == Num(0, 0)

RECURSIVE DigitsVal(_)
DigitsVal(s) ==
    IF s = <<>> THEN 0 ELSE 10 * DigitsVal(SubSeq(s, 1, Len(s) - 1)) + DigitVal(s[Len(s)])

AllDigits(s) == \A i \in 1..Len(s) : IsDigit(s[i])

---------------------------------------------------------------------------
(* clean_money_series, lines 41-50.                                        *)

\* astype(str) of one cell: a missing cell becomes the text "nan"
AsStr(v) == IF v.k = "nan" THEN <<"n", "a", "n">> ELSE v.txt

\* the four .str steps of lines 44-47
\* CleanText without the removal of the thousands points; C2 tells it apart
CleanTextKeepsPoints(t) ==
    Strip(Replace(Replace(t, <<"R", "$">>, <<>>), <<",">>, <<".">>))

CleanText(t) ==
    Strip(Replace(Replace(Replace(t, <<"R", "$">>, <<>>), <<".">>, <<>>), <<",">>, <<".">>))

ValueError == [k |-> "error"]

\* float(t) of Python on a text of digits, sign, point and blanks, and on
\* "nan"; exponents, underscores and "inf" need characters no cell of the
\* model holds.
ParseFloat(t) ==
    LET u == Strip(t)
        signed == u # <<>> /\ u[1] \in {"-", "+"}
        body == IF signed THEN Tail(u) ELSE u
        dots == {i \in 1..Len(body) : body[i] = "."}
        dot == IF dots = {} THEN Len(body) + 1 ELSE CHOOSE i \in dots : TRUE
        int == SubSeq(body, 1, dot - 1)
        frac == SubSeq(body, dot + 1, Len(body))
        mag == DigitsVal(int \o frac)
    IN  IF body = <<"n", "a", "n">> THEN NaN
        ELSE IF /\ Cardinality(dots) <= 1
                /\ AllDigits(int) /\ AllDigits(frac)
                /\ Len(int) + Len(frac) >= 1
        THEN Normal(IF signed /\ u[1] = "-" THEN 0 - mag ELSE mag, Len(frac))
        ELSE ValueError

\* .replace({"": np.nan}).astype(float) on one cell
ToFloat(t) == IF t = <<>> THEN NaN ELSE ParseFloat(t)

CleanMoneyCell(v) == ToFloat(CleanText(AsStr(v)))

\* clean_money_series coercing each bad cell to missing instead of raising,
\* as pd.to_numeric(errors="coerce") would; C7 tells it apart
clean_money_series_coerce(s) ==
    [k |-> "series",
     vals |-> [i \in 1..Len(s) |->
                  IF CleanMoneyCell(s[i]) = ValueError THEN NaN ELSE CleanMoneyCell(s[i])]]

\* The whole series: astype(float) raises if any cell does not parse, and
\* then no cell is converted.
clean_money_series(s) ==
    IF \E i \in 1..Len(s) : CleanMoneyCell(s[i]) = ValueError
    THEN ValueError
    ELSE [k |-> "series", vals |-> [i \in 1..Len(s) |-> CleanMoneyCell(s[i])]]

---------------------------------------------------------------------------
(* The uploaded file and pd.read_csv, lines 82-96.  A file is what decoding *)
(* and parsing its bytes does under each encoding ("raise": an exception,  *)
(* "empty": a table without data rows, "rows": the table) and the table of *)
(* field texts it holds.                                                   *)

Encodings == <<"utf-8", "latin-1">>

Outcomes == {"raise", "empty", "rows"}

None == [k |-> "none"]

Raised == [k |-> "raise"]

NoFile == [k |-> "nofile"]

File(u, l, t) == [k |-> "file", utf8 |-> u, latin1 |-> l, table |-> t]

DataFrame(cs, rs) == [k |-> "df", cols |-> cs, rows |-> rs]

\* some of the texts read_csv reads as a missing value (keep_default_na)
NaValues == {<<>>, <<"N", "A">>, <<"n", "a", "n">>}

Column(rs, j) == [i \in 1..Len(rs) |-> rs[i][j]]

RECURSIVE IntRepr(_)
\* str(int(t))
IntRepr(t) == IF Len(t) > 1 /\ t[1] = "0" THEN IntRepr(Tail(t)) ELSE t

\* One cell as read_csv returns it.  A column all of whose present fields
\* are digit strings becomes int64, or float64 when a field is missing, and
\* str() of its cells is what the model keeps; any other column keeps its
\* texts (object dtype).
InferCell(col, t) ==
    LET present == {i \in 1..Len(col) : col[i] \notin NaValues}
        numeric == present # {} /\ \A i \in present : AllDigits(col[i])
    IN  IF t \in NaValues THEN NaN
        ELSE IF ~numeric THEN Str(t)
        ELSE IF present = 1..Len(col) THEN Str(IntRepr(t))
        ELSE Str(IntRepr(t) \o <<".", "0">>)

read_csv(t) ==
    DataFrame(t.cols,
              [i \in 1..Len(t.rows) |->
                  [j \in 1..Len(t.cols) |-> InferCell(Column(t.rows, j), t.rows[i][j])]])

\* raw.decode(enc) and pd.read_csv of lines 87-89
Attempt(f, enc) ==
    LET outcome == IF enc = "utf-8" THEN f.utf8 ELSE f.latin1
    IN  IF outcome = "raise" THEN Raised
        ELSE IF outcome = "empty" THEN read_csv([cols |-> f.table.cols, rows |-> <<>>])
        ELSE read_csv(f.table)

RECURSIVE ReadLoop(_, _)
\* the for loop of lines 85-92 from its i-th encoding on: the first attempt
\* that does not raise ends the loop; an attempt that raises sets df = None
ReadLoop(f, i) ==
    IF i > Len(Encodings) THEN None
    ELSE IF Attempt(f, Encodings[i]) # Raised THEN Attempt(f, Encodings[i])
    ELSE ReadLoop(f, i + 1)

\* df.empty
IsEmpty(d) == d.rows = <<>> \/ d.cols = <<>>

---------------------------------------------------------------------------
(* The column mapping, lines 102-113.                                      *)

Roles == {"data_col", "valor_col", "banco_col", "classe_col", "caract_col"}

NoCol == <<>>

NoMapping == [r \in Roles |-> NoCol]

InCols(cs, c) == \E i \in 1..Len(cs) : cs[i] = c

\* cols.index(c)
IndexOf(cs, c) == CHOOSE i \in 1..Len(cs) : cs[i] = c /\ \A j \in 1..(i - 1) : cs[j] # c

IsData(c) == Lower(c) \in {<<"d", "a", "t", "a">>, <<"d", "a", "t", "e">>}

\* IsValor without c.lower(); C8 tells it apart
IsValorCased(c) == Contains(c, <<"v", "a", "l", "o", "r">>)

IsValor(c) == Contains(Lower(c), <<"v", "a", "l", "o", "r">>)

IsBanco(c) == Contains(Lower(c), <<"b", "a", "n", "c", "o">>)

IsTipo(c) == Contains(Lower(c), <<"t", "i", "p", "o">>)

IsCaract(c) ==
    \/ Contains(Lower(c), <<"c", "a", "r", "a", "c", "t", "e", "r">>)
    \/ Contains(Lower(c), <<"a", "t", "i", "v", "o">>)

Matches(role, c) ==
    CASE role = "data_col" -> IsData(c)
      [] role = "valor_col" -> IsValor(c)
      [] role = "banco_col" -> IsBanco(c)
      [] role = "classe_col" -> IsTipo(c)
      [] role = "caract_col" -> IsCaract(c)

\* next((c for c in cols if ...), cols[0])
DefaultGuess(cs, role) ==
    IF \E i \in 1..Len(cs) : Matches(role, cs[i])
    THEN cs[CHOOSE i \in 1..Len(cs) :
                /\ Matches(role, cs[i])
                /\ \A j \in 1..(i - 1) : ~Matches(role, cs[j])]
    ELSE cs[1]

\* pick(label, default_guess).  held is the value the selectbox keeps from
\* the run before when it is the same widget (same label, options and
\* index), and NoCol when the widget is new.
pick(cs, default_guess, held) ==
    LET guess == IF InCols(cs, default_guess) THEN default_guess
                 ELSE IF cs # <<>> THEN cs[1] ELSE NoCol
        index == IF InCols(cs, guess) THEN IndexOf(cs, guess) ELSE 1
    IN  IF held # NoCol THEN held ELSE cs[index]

---------------------------------------------------------------------------
(* Normalisation, lines 118-138.                                           *)

Leap(y) == y % 4 = 0 /\ (y % 100 # 0 \/ y % 400 = 0)

DaysIn(m, y) ==
    IF m = 2 THEN (IF Leap(y) THEN 29 ELSE 28)
    ELSE IF m \in {4, 6, 9, 11} THEN 30 ELSE 31

\* pd.to_datetime(errors="coerce", dayfirst=...) of one value.  A datetime
\* stays as it is and a missing value or NaT is NaT.  A text nn/nn/nnnn is
\* read day first or month first as the call asks, and is NaT when that
\* reading is no calendar date; any other text is NaT.
to_datetime(v, dayfirst) ==
    IF v.k = "date" THEN v
    ELSE IF v.k # "str" THEN NaT
    ELSE LET t == v.txt
             shaped == /\ Len(t) = 10 /\ t[3] = "/" /\ t[6] = "/"
                       /\ \A i \in {1, 2, 4, 5, 7, 8, 9, 10} : IsDigit(t[i])
             a == DigitsVal(SubSeq(t, 1, 2))
             b == DigitsVal(SubSeq(t, 4, 5))
             y == DigitsVal(SubSeq(t, 7, 10))
             d == IF dayfirst THEN a ELSE b
             m == IF dayfirst THEN b ELSE a
         IN  IF shaped /\ m \in 1..12 /\ d >= 1 /\ d <= DaysIn(m, y)
             THEN Date(y, m, d) ELSE NaT

Sentinel == <<"N", "ã", "o", " ", "i", "n", "f", "o", "r", "m", "a", "d", "o">>

\* .fillna(d)
FillNa(v, d) == IF v.k = "nan" THEN Str(d) ELSE v

\* .astype(str)
AsTypeStr(v) == Str(AsStr(v))

\* FillDefault with astype(str) before fillna, which turns a missing cell
\* into the text "nan"; C9 tells it apart
FillDefaultStrFirst(v) == FillNa(AsTypeStr(v), Sentinel)

\* line 138 on one cell
FillDefault(v) == AsTypeStr(FillNa(v, Sentinel))

ColIndex(d, c) == IndexOf(d.cols, c)

\* lines 118-119: the five mapped columns under their canonical names; idx
\* is the row's index label, which dropna keeps
Projected(d, m) ==
    [i \in 1..Len(d.rows) |->
        [idx |-> i,
         Data |-> d.rows[i][ColIndex(d, m["data_col"])],
         Valor |-> d.rows[i][ColIndex(d, m["valor_col"])],
         Banco |-> d.rows[i][ColIndex(d, m["banco_col"])],
         Tipo |-> d.rows[i][ColIndex(d, m["classe_col"])],
         Caracteristica |-> d.rows[i][ColIndex(d, m["caract_col"])]]]

ValorColumn(w) == [i \in 1..Len(w) |-> w[i].Valor]

IsNaT(v) == v.k = "nat"

\* line 130
DayFirstParsed(w) == [i \in 1..Len(w) |-> [w[i] EXCEPT !.Data = to_datetime(@, TRUE)]]

\* line 133: the column parsed again is work["Data"], which line 130 has
\* already replaced by its parsed values
MonthFirstParsed(w) == [i \in 1..Len(w) |-> [w[i] EXCEPT !.Data = to_datetime(@, FALSE)]]

HasDate(r) == ~IsNaT(r.Data)

\* line 134
DropNaData(w) == SelectSeq(w, HasDate)

---------------------------------------------------------------------------
(* The dashboard, lines 143-241: the total, and the aggregation by         *)
(* characteristic with its top-N cut.  The remaining charts and tables are *)
(* drawn from `work` and change nothing.                                   *)

RECURSIVE SumValues(_)
\* Series.sum(): missing values are skipped
SumValues(s) ==
    IF s = <<>> THEN Zero
    ELSE IF Head(s).k = "nan" THEN SumValues(Tail(s))
    ELSE Add(Head(s), SumValues(Tail(s)))

RECURSIVE Keys(_)
\* the distinct characteristics, in the order of their first row
Keys(w) ==
    IF w = <<>> THEN <<>>
    ELSE LET rest == Keys(SubSeq(w, 1, Len(w) - 1))
             c == w[Len(w)].Caracteristica
         IN  IF InCols(rest, c) THEN rest ELSE Append(rest, c)

OfKey(w, c) == SelectSeq(w, LAMBDA r : r.Caracteristica = c)

\* work.groupby("Caracteristica", as_index=False)["Valor"].sum()
GroupSum(w) ==
    [g \in 1..Len(Keys(w)) |->
        [Caracteristica |-> Keys(w)[g],
         Valor |-> SumValues(ValorColumn(OfKey(w, Keys(w)[g])))]]

Without(s, i) == SubSeq(s, 1, i - 1) \o SubSeq(s, i + 1, Len(s))

RECURSIVE SortDesc(_, _)
\* .sort_values("Valor", ascending=False).  The order of equal amounts is
\* not fixed by the sort: rev chooses between two of the orders it may give.
SortDesc(s, rev) ==
    IF s = <<>> THEN <<>>
    ELSE LET best == {i \in 1..Len(s) : \A j \in 1..Len(s) : ~Greater(s[j].Valor, s[i].Valor)}
             i == IF rev THEN CHOOSE x \in best : \A z \in best : z <= x
                  ELSE CHOOSE x \in best : \A z \in best : x <= z
         IN  <<s[i]>> \o SortDesc(Without(s, i), rev)

Outros == <<"O", "u", "t", "r", "o", "s">>

\* TopN collapsing from n groups on instead of from n + 1; C4 tells it apart
TopNInclusive(total, n) ==
    IF Len(total) >= n
    THEN LET top == SubSeq(total, 1, n)
             outros_valor == SumValues([i \in 1..(Len(total) - n) |-> total[n + i].Valor])
         IN  Append(top, [Caracteristica |-> Str(Outros), Valor |-> outros_valor])
    ELSE total

\* lines 197-202
TopN(total, n) ==
    IF Len(total) > n
    THEN LET top == SubSeq(total, 1, n)
             outros_valor == SumValues([i \in 1..(Len(total) - n) |-> total[n + i].Valor])
         IN  Append(top, [Caracteristica |-> Str(Outros), Valor |-> outros_valor])
    ELSE total

---------------------------------------------------------------------------
(* The inputs the environment draws from.                                  *)

cData == <<"D", "a", "t", "a">>

cValor == <<"V", "a", "l", "o", "r">>

cBanco == <<"B", "a", "n", "c", "o">>

cAtivo == <<"A", "t", "i", "v", "o">>

\* 1 March read day first, 3 January read month first
tAmbiguous == <<"0", "1", "/", "0", "3", "/", "2", "0", "2", "4">>

\* 13 January read month first, no date read day first
tMonthFirst == <<"0", "1", "/", "1", "3", "/", "2", "0", "2", "4">>

tGarbage == <<"x">>

tAmount == <<"R", "$", " ", "1", ".", "0", "0", "0", ",", "5", "0">>

tMarker == <<"R", "$">>

tSeven == <<"7">>

SeqsUpTo(S, n) == UNION {[1..k -> S] : k \in 1..n}

DateTexts == {tAmbiguous, tMonthFirst, tGarbage}

AmountTexts == {tAmount, tMarker, <<>>, tGarbage}

BancoTexts == {<<>>, tSeven}

PipeCols == <<cData, cValor, cBanco>>

PipeRows == {<<d, v, b>> : d \in DateTexts, v \in AmountTexts, b \in BancoTexts}

PipeTables == {[cols |-> PipeCols, rows |-> rs] : rs \in SeqsUpTo(PipeRows, MaxRows)}

PlainTable == [cols |-> PipeCols, rows |-> <<<<tAmbiguous, tAmount, tSeven>>>>]

\* the tables that parse at once, and one table under every pair of outcomes
PipeFiles ==
    {File("rows", "rows", t) : t \in PipeTables}
        \cup {File(u, l, PlainTable) : u \in Outcomes, l \in Outcomes}

Secrets == {None, Str(<<>>), Str(<<" ", "a">>)}

Passwords == {<<"a">>, <<"a", " ">>, <<"b">>, <<>>}

\* two tables of different columns, for a session that maps columns by hand
OtherCols == <<<<"D", "a", "t", "e">>, <<"T", "o", "t", "a", "l">>>>

SessionFiles ==
    {File("rows", "rows", PlainTable),
     File("rows", "rows", [cols |-> OtherCols, rows |-> <<<<tAmbiguous, tAmount>>>>])}

\* headers for the default guesses
NamePool ==
    {cData, <<"D", "A", "T", "E">>, <<"D", "a", "t", "a", "2">>,
     cValor, <<"x", "V", "A", "L", "O", "R">>, cBanco, <<"T", "i", "p", "o">>, cAtivo,
     <<"C", "a", "r", "a", "c", "t", "e", "r">>, <<"N", "o", "m", "e">>}

Distinct(cs) == \A i \in 1..Len(cs) : \A j \in 1..Len(cs) : i # j => cs[i] # cs[j]

Headers == {cs \in SeqsUpTo(NamePool, MaxCols) : Distinct(cs)}

PickFiles ==
    {File("rows", "rows", [cols |-> cs, rows |-> <<[j \in 1..Len(cs) |-> tSeven]>>]) :
        cs \in Headers}

\* amount texts: every text up to MaxLen over these characters, and the
\* examples of the documentation
MoneyChars == {"R", "$", " ", "-", ".", ",", "0", "1"}

MoneySamples ==
    {<<"R", "$", " ", "1", ".", "2", "3", "4", ",", "5", "6">>,
     <<"1", "2", "3", "4", ",", "5", "6">>,
     <<"-", "1", "0", ",", "0", "0">>,
     <<"1", ".", "0", "0", "0">>,
     <<"R", "$", " ", "-", "1", ".", "0", "0", "0", ".", "0", "0", "0", ",", "0", "7">>}

MoneyTexts == {<<>>} \cup SeqsUpTo(MoneyChars, MaxLen) \cup MoneySamples

\* a second row that keeps the column a column of texts
tAnchor == <<"R", "$", " ", "2">>

MoneyFiles ==
    {File("rows", "rows", [cols |-> <<cValor>>, rows |-> <<<<t>>, <<tAnchor>>>>]) :
        t \in MoneyTexts}

\* tables of n characteristics, one row each, and at most one more row of
\* the first characteristic
Label(i) == <<"A", Digits[i + 1]>>

GroupAmounts == {<<"R", "$", " ", "2">>, <<"R", "$", " ", "-", "1">>}

TopNRows(n, amt, extra) ==
    [i \in 1..n |-> <<tAmbiguous, amt[i], Label(i)>>]
        \o (IF extra = <<>> THEN <<>> ELSE <<<<tAmbiguous, extra, Label(1)>>>>)

TopNFiles ==
    {File("rows", "rows", [cols |-> <<cData, cValor, cAtivo>>, rows |-> TopNRows(n, amt, extra)]) :
        n \in 1..MaxGroups, amt \in [1..MaxGroups -> GroupAmounts],
        extra \in GroupAmounts \cup {<<>>}}

---------------------------------------------------------------------------
(* A script run.  The names a run binds are bound anew by every run.       *)

StartRun(click) ==
    /\ pc' = "require_login"
    /\ clicked' = click
    /\ df' = None
    /\ work' = <<>>
    /\ shown' = {}
    /\ stale' = FALSE
    /\ fallback' = FALSE
    /\ total_patrimonio' = Zero
    /\ dist_char_total' = <<>>
    /\ dist_char' = <<>>

RunLocals == <<df, work, stale, fallback, total_patrimonio, dist_char_total, dist_char>>

Finished == {"stop_login", "stop_nofile", "stop_csv", "stop_valor", "done"}

\* `not secret`
Falsy(s) == s = None \/ s = Str(<<>>)

\* PasswordMatches with `in` for `==`: the password need only occur in the
\* secret; C10 tells it apart
PasswordMatchesWithin(p, s) == Strip(p) = <<>> \/ Contains(Strip(s.txt), Strip(p))

\* pwd.strip() == str(secret).strip(), line 25
PasswordMatches(p, s) == Strip(p) = Strip(s.txt)

(* require_login, lines 15-33.                                             *)
RequireLogin ==
    /\ pc = "require_login"
    /\ IF Falsy(secret) \/ auth_ok
       THEN /\ pc' = "check_upload"
            /\ pwd' = <<>>
            /\ UNCHANGED <<auth_ok, clicked, shown, mapping, widget_cols>>
            /\ UNCHANGED RunLocals
       ELSE IF clicked = "entrar" /\ PasswordMatches(pwd, secret)
       THEN /\ auth_ok' = TRUE
            /\ StartRun("none")
            /\ UNCHANGED <<pwd, mapping, widget_cols>>
       ELSE /\ shown' = shown \cup {"login"}
                            \cup (IF clicked = "entrar" THEN {"error_senha"} ELSE {})
            /\ pc' = "stop_login"
            /\ mapping' = NoMapping
            /\ widget_cols' = <<>>
            /\ UNCHANGED <<auth_ok, clicked, pwd>>
            /\ UNCHANGED RunLocals
    /\ UNCHANGED <<secret, uploaded, remapped, top_n_caracteristicas>>

(* lines 74-77                                                             *)
CheckUpload ==
    /\ pc = "check_upload"
    /\ IF uploaded = NoFile
       THEN /\ shown' = shown \cup {"info"}
            /\ pc' = "stop_nofile"
            /\ mapping' = NoMapping
            /\ widget_cols' = <<>>
       ELSE /\ pc' = "read_csv"
            /\ UNCHANGED <<shown, mapping, widget_cols>>
    /\ UNCHANGED <<secret, auth_ok, pwd, clicked, uploaded, remapped, top_n_caracteristicas>>
    /\ UNCHANGED RunLocals

(* lines 82-96                                                             *)
ReadCsv ==
    /\ pc = "read_csv"
    /\ df' = ReadLoop(uploaded, 1)
    /\ IF df' = None \/ IsEmpty(df')
       THEN /\ shown' = shown \cup {"error_csv"}
            /\ pc' = "stop_csv"
            /\ mapping' = NoMapping
            /\ widget_cols' = <<>>
       ELSE /\ pc' = "mapping"
            /\ UNCHANGED <<shown, mapping, widget_cols>>
    /\ UNCHANGED <<secret, auth_ok, pwd, clicked, uploaded, remapped, top_n_caracteristicas,
                   work, stale, fallback, total_patrimonio, dist_char_total, dist_char>>

(* lines 101-113: the five selectboxes.  A selectbox drawn with the        *)
(* options of the run before keeps its value; one drawn with other options *)
(* is a new widget and starts at its default.                              *)
MapColumns ==
    /\ pc = "mapping"
    /\ stale' = (widget_cols # <<>> /\ \E r \in Roles : ~InCols(df.cols, mapping[r]))
    /\ mapping' = [r \in Roles |->
                      pick(df.cols, DefaultGuess(df.cols, r),
                           IF widget_cols = df.cols THEN mapping[r] ELSE NoCol)]
    /\ widget_cols' = df.cols
    /\ shown' = shown \cup {"mapping"}
    /\ pc' = "project"
    /\ UNCHANGED <<secret, auth_ok, pwd, clicked, uploaded, df, remapped, top_n_caracteristicas,
                   work, fallback, total_patrimonio, dist_char_total, dist_char>>

(* lines 118-119                                                           *)
Project ==
    /\ pc = "project"
    /\ IF \A r \in Roles : InCols(df.cols, mapping[r])
       THEN work' = Projected(df, mapping) /\ pc' = "valor"
       ELSE work' = work /\ pc' = "key_error"
    /\ UNCHANGED <<secret, auth_ok, pwd, clicked, uploaded, df, mapping, widget_cols, remapped,
                   stale, fallback, shown, top_n_caracteristicas,
                   total_patrimonio, dist_char_total, dist_char>>

(* lines 121-126                                                           *)
ConvertValor ==
    /\ pc = "valor"
    /\ LET converted == clean_money_series(ValorColumn(work))
       IN  IF converted = ValueError
           THEN /\ shown' = shown \cup {"error_valor"}
                /\ pc' = "stop_valor"
                /\ work' = work
           ELSE /\ work' = [i \in 1..Len(work) |-> [work[i] EXCEPT !.Valor = converted.vals[i]]]
                /\ pc' = "data"
                /\ shown' = shown
    /\ UNCHANGED <<secret, auth_ok, pwd, clicked, uploaded, df, mapping, widget_cols, remapped,
                   stale, fallback, top_n_caracteristicas,
                   total_patrimonio, dist_char_total, dist_char>>

(* lines 128-134                                                           *)
ParseData ==
    /\ pc = "data"
    /\ LET first == DayFirstParsed(work)
           allNaT == \A i \in 1..Len(first) : IsNaT(first[i].Data)
       IN  /\ fallback' = allNaT
           /\ work' = DropNaData(IF allNaT THEN MonthFirstParsed(first) ELSE first)
    /\ pc' = "fill"
    /\ UNCHANGED <<secret, auth_ok, pwd, clicked, uploaded, df, mapping, widget_cols, remapped,
                   stale, shown, top_n_caracteristicas,
                   total_patrimonio, dist_char_total, dist_char>>

(* lines 136-138                                                           *)
FillDefaults ==
    /\ pc = "fill"
    /\ work' = [i \in 1..Len(work) |->
                   [work[i] EXCEPT !.Banco = FillDefault(@),
                                   !.Tipo = FillDefault(@),
                                   !.Caracteristica = FillDefault(@)]]
    /\ pc' = "dashboard"
    /\ UNCHANGED <<secret, auth_ok, pwd, clicked, uploaded, df, mapping, widget_cols, remapped,
                   stale, fallback, shown, top_n_caracteristicas,
                   total_patrimonio, dist_char_total, dist_char>>

(* lines 143-241                                                           *)
Dashboard ==
    /\ pc = "dashboard"
    /\ IF clicked = "recarregar"
       THEN /\ StartRun("none")
       ELSE /\ \E rev \in BOOLEAN :
                /\ dist_char_total' = SortDesc(GroupSum(work), rev)
                /\ dist_char' = TopN(dist_char_total', top_n_caracteristicas)
            /\ total_patrimonio' = SumValues(ValorColumn(work))
            /\ shown' = shown \cup {"dashboard"}
            /\ pc' = "done"
            /\ UNCHANGED <<clicked, df, work, stale, fallback>>
    /\ UNCHANGED <<secret, auth_ok, pwd, uploaded, mapping, widget_cols, remapped,
                   top_n_caracteristicas>>

Script ==
    \/ RequireLogin
    \/ CheckUpload
    \/ ReadCsv
    \/ MapColumns
    \/ Project
    \/ ConvertValor
    \/ ParseData
    \/ FillDefaults
    \/ Dashboard

---------------------------------------------------------------------------
(* What the user does between two runs; each starts a run.                 *)

ClickEntrar ==
    /\ pc = "stop_login"
    /\ \E p \in Passwords : pwd' = p
    /\ StartRun("entrar")
    /\ UNCHANGED <<secret, auth_ok, uploaded, mapping, widget_cols, remapped,
                   top_n_caracteristicas>>

\* a file is put in the empty uploader
Upload(files) ==
    /\ pc \in Finished \ {"stop_login"}
    /\ uploaded = NoFile
    /\ \E f \in files : uploaded' = f
    /\ StartRun("none")
    /\ UNCHANGED <<secret, auth_ok, pwd, mapping, widget_cols, remapped, top_n_caracteristicas>>

\* the file in the uploader is replaced by another
ReplaceFile(files) ==
    /\ pc \in Finished \ {"stop_login"}
    /\ uploaded # NoFile
    /\ \E f \in files : f # uploaded /\ uploaded' = f
    /\ StartRun("none")
    /\ UNCHANGED <<secret, auth_ok, pwd, mapping, widget_cols, remapped, top_n_caracteristicas>>

RemoveFile ==
    /\ pc \in Finished \ {"stop_login"}
    /\ uploaded # NoFile
    /\ uploaded' = NoFile
    /\ StartRun("none")
    /\ UNCHANGED <<secret, auth_ok, pwd, mapping, widget_cols, remapped, top_n_caracteristicas>>

ClickRecarregar ==
    /\ pc = "done"
    /\ StartRun("recarregar")
    /\ UNCHANGED <<secret, auth_ok, pwd, uploaded, mapping, widget_cols, remapped,
                   top_n_caracteristicas>>

SelectColumn ==
    /\ pc \in {"stop_valor", "done"}
    /\ remapped < MaxRemaps
    /\ \E r \in Roles : \E i \in 1..Len(widget_cols) :
          /\ widget_cols[i] # mapping[r]
          /\ mapping' = [mapping EXCEPT ![r] = widget_cols[i]]
    /\ remapped' = remapped + 1
    /\ StartRun("none")
    /\ UNCHANGED <<secret, auth_ok, pwd, uploaded, widget_cols, top_n_caracteristicas>>

MoveSlider ==
    /\ pc \in Finished \ {"stop_login"}
    /\ \E n \in SliderMin..MaxTopN :
          n # top_n_caracteristicas /\ top_n_caracteristicas' = n
    /\ StartRun("none")
    /\ UNCHANGED <<secret, auth_ok, pwd, uploaded, mapping, widget_cols, remapped>>

---------------------------------------------------------------------------
(* The specifications: a new session, the script, and the user's inputs.   *)

NewSession ==
    /\ pc = "require_login"
    /\ auth_ok = FALSE
    /\ pwd = <<>>
    /\ clicked = "none"
    /\ uploaded = NoFile
    /\ df = None
    /\ mapping = NoMapping
    /\ widget_cols = <<>>
    /\ remapped = 0
    /\ stale = FALSE
    /\ fallback = FALSE
    /\ work = <<>>
    /\ shown = {}
    /\ top_n_caracteristicas = SliderDefault
    /\ total_patrimonio = Zero
    /\ dist_char_total = <<>>
    /\ dist_char = <<>>

Init == secret \in Secrets /\ NewSession

Next == Script \/ ClickEntrar \/ Upload(PipeFiles) \/ RemoveFile \/ ClickRecarregar

Spec == Init /\ [][Next]_vars

\* a session without password in which the user changes the column mapping
InitOpen == secret = None /\ NewSession

NextSession == Script \/ Upload(SessionFiles) \/ ReplaceFile(SessionFiles) \/ SelectColumn

SpecSession == InitOpen /\ [][NextSession]_vars

\* uploads of every header
NextPick == Script \/ Upload(PickFiles) \/ RemoveFile

SpecPick == InitOpen /\ [][NextPick]_vars

\* uploads of every amount text
NextMoney == Script \/ Upload(MoneyFiles) \/ RemoveFile

SpecMoney == InitOpen /\ [][NextMoney]_vars

\* uploads of many characteristics, and the slider
NextTopN == Script \/ Upload(TopNFiles) \/ RemoveFile \/ MoveSlider

SpecTopN == InitOpen /\ [][NextTopN]_vars

---------------------------------------------------------------------------
(* Properties.                                                             *)

\* the cell of the read table under row r of `work` and a role's column
RawCell(idx, role) == df.rows[idx][ColIndex(df, mapping[role])]

\* the field text of the uploaded file under that cell
RawText(idx, role) == uploaded.table.rows[idx][ColIndex(df, mapping[role])]

Normalised == {"dashboard", "done"}

WorkIdx == {work[j].idx : j \in 1..Len(work)}

\* C1: after normalisation every row of `work` has a date and a number as
\* amount; no row with a missing or empty amount, or an unparseable date,
\* is in the table the dashboard reads.
C1_RowsHaveDateAndAmount ==
    pc \in Normalised =>
        \A j \in 1..Len(work) : work[j].Data.k = "date" /\ work[j].Valor.k = "num"

RECURSIVE OnlyMarkersBlanksPoints(_, _)
\* t from position i on is made of blanks, points and whole markers "R$"
OnlyMarkersBlanksPoints(t, i) ==
    IF i > Len(t) THEN TRUE
    ELSE IF IsSpace(t[i]) \/ t[i] = "." THEN OnlyMarkersBlanksPoints(t, i + 1)
    ELSE IF StartsWithAt(t, <<"R", "$">>, i) THEN OnlyMarkersBlanksPoints(t, i + 2)
    ELSE FALSE

\* digits in groups of three divided by points, the first of one to three
Grouped(ip) ==
    /\ Len(ip) >= 5
    /\ Len(ip) % 4 # 0
    /\ \A i \in 1..Len(ip) :
          IF (Len(ip) - i + 1) % 4 = 0 THEN ip[i] = "." ELSE IsDigit(ip[i])

\* the amount of a locale text: [blanks] ["R$"] [blanks] ["-"] integer part,
\* plain or grouped by points, ["," decimals] [blanks]
LocaleParts(t) ==
    LET u == Strip(t)
        a == IF StartsWithAt(u, <<"R", "$">>, 1) THEN LStrip(SubSeq(u, 3, Len(u))) ELSE u
        neg == a # <<>> /\ a[1] = "-"
        n == IF neg THEN Tail(a) ELSE a
        commas == {i \in 1..Len(n) : n[i] = ","}
        c == IF commas = {} THEN Len(n) + 1 ELSE CHOOSE i \in commas : TRUE
    IN  [neg |-> neg, commas |-> Cardinality(commas),
         ip |-> SubSeq(n, 1, c - 1), fp |-> SubSeq(n, c + 1, Len(n))]

IsLocaleAmount(t) ==
    LET p == LocaleParts(t)
    IN  /\ p.commas <= 1
        /\ p.commas = 1 => p.fp # <<>>
        /\ AllDigits(p.fp)
        /\ (p.ip # <<>> /\ AllDigits(p.ip)) \/ Grouped(p.ip)

LocaleValue(t) ==
    LET p == LocaleParts(t)
        mag == DigitsVal(SelectSeq(p.ip, IsDigit) \o p.fp)
    IN  Normal(IF p.neg THEN 0 - mag ELSE mag, Len(p.fp))

Count(t, c) == Cardinality({i \in 1..Len(t) : t[i] = c})

\* C2: the cleaning of an amount cell leaves no comma, turns every comma
\* into a point after deleting the points, and leaves no blank at either
\* end; a text in the locale format converts to exactly its value, sign
\* kept; a text with nothing left after cleaning converts to missing, not 0.
C2_CleanMoney ==
    (pc \in {"data", "stop_valor"} /\ Len(df.rows) = 2 /\ df.cols = <<cValor>>) =>
        LET t == uploaded.table.rows[1][1]
            cleaned == CleanText(AsStr(df.rows[1][1]))
        IN  /\ Count(cleaned, ",") = 0
            /\ df.rows[1][1] # NaN => Count(cleaned, ".") = Count(t, ",")
            /\ cleaned = <<>> \/ (~IsSpace(cleaned[1]) /\ ~IsSpace(cleaned[Len(cleaned)]))
            /\ IsLocaleAmount(t) => pc = "data" /\ work[1].Valor = LocaleValue(t)
            /\ OnlyMarkersBlanksPoints(t, 1) => pc = "data" /\ work[1].Valor = NaN

\* C2, reached: "R$ 1.234,56" has been converted to 1234.56
C2_Witness ==
    /\ pc = "data"
    /\ uploaded.table.rows[1][1] = <<"R", "$", " ", "1", ".", "2", "3", "4", ",", "5", "6">>
    /\ work[1].Valor = Num(123456, 2)

DayFirstOk(i) == ~IsNaT(to_datetime(RawCell(i, "data_col"), TRUE))

MonthFirstOk(i) == ~IsNaT(to_datetime(RawCell(i, "data_col"), FALSE))

RECURSIVE SumOf(_, _)
\* the sum of the amounts of the rows of w whose index is in S
SumOf(w, S) ==
    IF S = {} THEN Zero
    ELSE LET i == CHOOSE x \in S : TRUE
         IN  Add(w[i].Valor, SumOf(w, S \ {i}))

Characteristics == {work[j].Caracteristica : j \in 1..Len(work)}

\* C4: the aggregation by characteristic has one group per characteristic
\* with the sum of its rows, largest first; with more groups than top N the
\* result is the first N groups and then "Outros" with the sum of the rest;
\* otherwise it is the groups themselves.
C4_TopNCollapse ==
    pc = "done" =>
        LET n == Len(dist_char_total)
            k == top_n_caracteristicas
        IN  /\ n = Cardinality(Characteristics)
            /\ \A g \in 1..n :
                  dist_char_total[g].Valor =
                      SumOf(work, {j \in 1..Len(work) :
                                      work[j].Caracteristica = dist_char_total[g].Caracteristica})
            /\ \A g \in 1..n : \A h \in g..n :
                  ~Greater(dist_char_total[h].Valor, dist_char_total[g].Valor)
            /\ n > k =>
                  /\ Len(dist_char) = k + 1
                  /\ \A g \in 1..k : dist_char[g] = dist_char_total[g]
                  /\ dist_char[k + 1].Caracteristica = Str(Outros)
                  /\ dist_char[k + 1].Valor = SumOf(dist_char_total, (k + 1)..n)
                  /\ SumOf(dist_char, 1..(k + 1)) = SumOf(work, 1..Len(work))
            /\ n <= k => dist_char = dist_char_total

\* C4, reached: two groups or more have been collapsed into "Outros", and
\* in another run as many groups as top N were left as they are
C4_Witness ==
    /\ pc = "done"
    /\ Len(dist_char_total) >= top_n_caracteristicas + 2
    /\ Len(dist_char) = top_n_caracteristicas + 1
    /\ dist_char[Len(dist_char)].Valor # Zero

\* C5: when the selectboxes held a column the table now read lacks, the run
\* ends in a mapping error and the normalisation never starts.
C5_AbsentColumnStopsTheLoad ==
    stale => pc \notin {"valor", "data", "fill", "dashboard", "done", "stop_valor"}

NonEmptyTable(d) == d # Raised /\ ~IsEmpty(d)

\* C6: once the file has been read, the run has stopped with the CSV error
\* exactly when no encoding of the list gives a table with rows.
C6_FailsIffNoEncodingParses ==
    (uploaded # NoFile /\ pc \notin {"require_login", "stop_login", "check_upload", "read_csv"}) =>
        (pc = "stop_csv" <=>
            ~\E i \in 1..Len(Encodings) : NonEmptyTable(Attempt(uploaded, Encodings[i])))

AmountFails(i) == CleanMoneyCell(RawCell(i, "valor_col")) = ValueError

\* C7: if a cell of the amount column does not parse, the run stops with
\* the amount error and shows no dashboard, and no amount of `work` has
\* been converted; past the conversion every amount of `work` is the
\* conversion of its cell.
C7_AmountErrorAborts ==
    pc \in {"data", "fill", "dashboard", "done", "stop_valor"} =>
        IF \E i \in 1..Len(df.rows) : AmountFails(i)
        THEN /\ pc = "stop_valor"
             /\ "error_valor" \in shown
             /\ "dashboard" \notin shown
             /\ \A j \in 1..Len(work) : work[j].Valor = RawCell(work[j].idx, "valor_col")
        ELSE /\ pc # "stop_valor"
             /\ "error_valor" \notin shown
             /\ \A j \in 1..Len(work) :
                   /\ work[j].Valor.k \in {"num", "nan"}
                   /\ work[j].Valor = CleanMoneyCell(RawCell(work[j].idx, "valor_col"))

\* C7, reached: a table with a good and a bad amount has stopped the run
C7_Witness ==
    /\ pc = "stop_valor"
    /\ \E i \in 1..Len(df.rows) : AmountFails(i)
    /\ \E i \in 1..Len(df.rows) : CleanMoneyCell(RawCell(i, "valor_col")).k = "num"

RoleWords(role) ==
    CASE role = "data_col" -> {<<"d", "a", "t", "a">>, <<"d", "a", "t", "e">>}
      [] role = "valor_col" -> {<<"v", "a", "l", "o", "r">>}
      [] role = "banco_col" -> {<<"b", "a", "n", "c", "o">>}
      [] role = "classe_col" -> {<<"t", "i", "p", "o">>}
      [] role = "caract_col" -> {<<"c", "a", "r", "a", "c", "t", "e", "r">>, <<"a", "t", "i", "v", "o">>}

HasWord(role, c) == \E w \in RoleWords(role) : Contains(Lower(c), w)

IsWord(role, c) == Lower(c) \in RoleWords(role)

\* the first column that fits, else the first column
FirstFit(cs, Fits(_)) ==
    IF \E i \in 1..Len(cs) : Fits(cs[i])
    THEN cs[CHOOSE i \in 1..Len(cs) : Fits(cs[i]) /\ \A j \in 1..(i - 1) : ~Fits(cs[j])]
    ELSE cs[1]

\* C8 as stated: every role's default is the first column whose lower-cased
\* name contains a word of the role, the date role too, else the first column.
C8_DefaultIsFirstSubstringMatch ==
    pc = "project" =>
        \A r \in Roles :
            /\ InCols(df.cols, mapping[r])
            /\ mapping[r] = FirstFit(df.cols, LAMBDA c : HasWord(r, c))

\* C8 amended: the date role's default is the first column whose lower-cased
\* name is "data" or "date"; the other roles' default is the first column
\* whose lower-cased name contains the role's word; else the first column.
C8_DefaultGuess ==
    pc = "project" =>
        \A r \in Roles :
            /\ InCols(df.cols, mapping[r])
            /\ mapping[r] = FirstFit(df.cols,
                                LAMBDA c : IF r = "data_col" THEN IsWord(r, c) ELSE HasWord(r, c))

\* C8, reached: "Data2" is passed over for "DATE", and "xVALOR" is the amount
C8_Witness ==
    /\ pc = "project"
    /\ df.cols = <<<<"D", "a", "t", "a", "2">>, <<"D", "A", "T", "E">>, <<"x", "V", "A", "L", "O", "R">>>>
    /\ mapping["data_col"] = <<"D", "A", "T", "E">>
    /\ mapping["valor_col"] = <<"x", "V", "A", "L", "O", "R">>
    /\ mapping["banco_col"] = <<"D", "a", "t", "a", "2">>

TextRoles == [Banco |-> "banco_col", Tipo |-> "classe_col", Caracteristica |-> "caract_col"]

\* C9: in every row of the normalised table the bank, the class and the
\* characteristic are non-empty texts: the sentinel where the field of the
\* file is empty or the cell is missing, and the cell's own text otherwise.
C9_TextColumnsDefaulted ==
    pc \in Normalised =>
        \A j \in 1..Len(work) : \A f \in DOMAIN TextRoles :
            LET v == work[j][f]
                cell == RawCell(work[j].idx, TextRoles[f])
                text == RawText(work[j].idx, TextRoles[f])
            IN  /\ v.k = "str"
                /\ v.txt # <<>>
                /\ (text = <<>> \/ cell = NaN) => v.txt = Sentinel
                /\ cell # NaN => v.txt = cell.txt

\* C9, reached: a row with the sentinel beside a row with a number's text
C9_Witness ==
    /\ pc = "done"
    /\ \E j \in 1..Len(work) : work[j].Banco = Str(Sentinel)
    /\ \E j \in 1..Len(work) : work[j].Banco = Str(<<"7", ".", "0">>)

Gated == ~Falsy(secret)

BehindGate == {"check_upload", "read_csv", "mapping", "project", "valor", "data", "fill",
               "dashboard", "key_error", "stop_nofile", "stop_csv", "stop_valor", "done"}

GoodPassword == Strip(pwd) = Strip(secret.txt)

\* C10: with a password configured nothing behind the gate runs unless
\* auth_ok; auth_ok turns true only in require_login on a click of "Entrar"
\* with the password, blanks trimmed on both; a click with another password
\* leaves it and stops the run; once true it stays true; without a password
\* the gate never stops a run.
C10_PasswordGate ==
    /\ []((Gated /\ pc \in BehindGate) => auth_ok)
    /\ [](~Gated => (pc # "stop_login" /\ "login" \notin shown))
    /\ [][/\ (~auth_ok /\ auth_ok') =>
                (pc = "require_login" /\ clicked = "entrar" /\ GoodPassword)
          /\ auth_ok => auth_ok'
          /\ (pc = "require_login" /\ Gated /\ ~auth_ok /\ clicked = "entrar" /\ ~GoodPassword) =>
                (~auth_ok' /\ pc' = "stop_login" /\ "error_senha" \in shown')
          /\ (pc = "require_login" /\ Gated /\ ~auth_ok /\ clicked = "entrar" /\ GoodPassword) =>
                auth_ok']_vars

\* C10, reached: with the secret " a" configured a login has set auth_ok and
\* the run behind the gate has shown the dashboard
C10_Witness ==
    /\ Gated
    /\ secret = Str(<<" ", "a">>)
    /\ auth_ok
    /\ pc = "done"
    /\ "dashboard" \in shown

=============================================================================
